---- MODULE Spec2Model ----
(***************************************************************************)
(* Model of the skelz attestation system:                                  *)
(*   - the on-chain program `skelz` (contracts/programs/skelz/src/lib.rs): *)
(*     write_signature creates a write-once record account at a            *)
(*     program-derived address;                                            *)
(*   - the Rust test client (contracts/tests/rust_client/src/main.rs);     *)
(*   - the CLI library (cli/src/lib.rs) and its entry point                *)
(*     (cli/src/main.rs): the sign pipeline (memo transaction, then        *)
(*     `oras attach`) and the verification pipeline.                       *)
(*                                                                         *)
(* Strings are sequences of tokens; a token stands for a run of            *)
(* characters ("a64" is the character 'a' repeated 64 times), so that      *)
(* find / starts_with / slicing are computed position by position.         *)
(* SHA-256 and the program-address derivation are ideal hashes: symbolic,  *)
(* injective terms over their input.                                       *)
(***************************************************************************)
EXTENDS Integers, Sequences, FiniteSets, TLC

----------------------------------------------------------------------------
(* Bounds of the model *)

\* executed write_signature transactions kept in the ledger log
MaxWrites == 3
\* memo transactions on the ledger
MaxTx == 2
\* artifacts attached in the registry
MaxArtifacts == 2

----------------------------------------------------------------------------
(* Strings *)

\* byte length of a token
TokLen(t) ==
    CASE t = "sha256:" -> 7
      [] t = "a64" -> 64
      [] t = "b64" -> 64
      [] t = "abc123def456789" -> 15
      [] t = "a63b" -> 64
      [] t = "A64" -> 64
      [] t = "abc" -> 3
      [] t = "@" -> 1
      [] t = "/" -> 1
      [] OTHER -> 4

RECURSIVE StrLen(_)
StrLen(s) == IF s = <<>> THEN 0 ELSE TokLen(Head(s)) + StrLen(Tail(s))

\* "sha256:" + "a"*64, a canonical digest (71 bytes)
DigestA == <<"sha256:", "a64">>
\* "sha256:" + "b"*64, a second canonical digest (71 bytes)
DigestB == <<"sha256:", "b64">>
\* the digest the test client writes (22 bytes)
DigestTest == <<"sha256:", "abc123def456789">>
\* a digest string longer than the record's allocation holds (143 bytes)
DigestLong == <<"sha256:", "a64", "@", "sha256:", "b64">>

\* digest strings passed to write_signature
Digests == {DigestA, DigestTest, DigestLong}

\* public keys of the transaction signers
Signers == {"S1", "S2"}

----------------------------------------------------------------------------
(* The skelz program *)

\* Sha256::digest(bytes): an ideal hash, a term over its input
Sha256(bytes) == <<"SHA256(">> \o bytes \o <<")">>

\* Pubkey::find_program_address(seeds, program_id): an ideal hash of the seeds
FindProgramAddress(seeds) == seeds

\* mutant: the digest is left out of the seeds
ProgramDerive_NoDigest(digest) == FindProgramAddress(<< <<"signature">> >>)

\* seeds = [b"signature", &Sha256::digest(digest.as_bytes())[..]]
ProgramDerive(digest) == FindProgramAddress(<< <<"signature">>, Sha256(digest) >>)

\* the test client: find_program_address(&[b"signature", digest.as_bytes()])
ClientDerive(digest) == FindProgramAddress(<< <<"signature">>, digest >>)

\* addresses a write_signature transaction may name as its signature account
ProgramAddresses == {ProgramDerive(d) : d \in Digests}
Addresses == ProgramAddresses \cup {ClientDerive(DigestTest)}

\* mutant: the allocation leaves out the signer's 32 bytes
Space_NoSigner == 8 + 100

\* space = 8 + 100 + 32
Space == 8 + 100 + 32
\* Anchor account discriminator
DiscriminatorLen == 8
\* Pubkey
PubkeyLen == 32
\* Borsh String: u32 length prefix + bytes
BorshStringLen(s) == 4 + StrLen(s)

\* serialized size of Signature { digest, signer } with its discriminator
SerializedLen(digest) == DiscriminatorLen + BorshStringLen(digest) + PubkeyLen

\* an address with no account
NoAccount == [init |-> FALSE, digest |-> <<>>, signer |-> "none"]

\* mutant: init_if_needed, an existing account is taken as it is
WriteOutcome_InitIfNeeded(acc, addr, digest) ==
    IF addr # ProgramDerive(digest) THEN "ConstraintSeeds"
    ELSE IF SerializedLen(digest) > Space THEN "AccountDidNotSerialize"
    ELSE "Ok"

\* mutant: no seeds constraint on the signature account
WriteOutcome_NoSeeds(acc, addr, digest) ==
    IF acc[addr].init THEN "DuplicateAttestation"
    ELSE IF SerializedLen(digest) > Space THEN "AccountDidNotSerialize"
    ELSE "Ok"

\* outcome of one write_signature transaction: the account constraints
\* (seeds, then init = create the account, which fails if it is in use), the
\* handler, then the serialization of the record into the allocated space.
\* "DuplicateAttestation" is the system program's account-already-in-use error.
WriteOutcome(acc, addr, digest) ==
    IF addr # ProgramDerive(digest) THEN "ConstraintSeeds"
    ELSE IF acc[addr].init THEN "DuplicateAttestation"
    ELSE IF SerializedLen(digest) > Space THEN "AccountDidNotSerialize"
    ELSE "Ok"

----------------------------------------------------------------------------
(* The CLI: strings and references *)

\* image references given to sign and verify
\* ghcr.io/acme@sha256:aa..a
RefA == <<"ghcr.io", "/", "acme", "@", "sha256:", "a64">>
\* ghcr.io/acme@sha256:bb..b
RefB == <<"ghcr.io", "/", "acme", "@", "sha256:", "b64">>
\* ghcr.io/acme:latest
RefTag == <<"ghcr.io", "/", "acme", ":latest">>
\* docker.io/acme@sha256:aa..a
RefDocker == <<"docker.io", "/", "acme", "@", "sha256:", "a64">>
\* ghcr.io.evil.com/acme@sha256:aa..a
RefEvil == <<"ghcr.io", ".evil.com", "/", "acme", "@", "sha256:", "a64">>

ImageRefs == {RefA, RefB, RefTag, RefDocker, RefEvil}

\* pat occurs in s at position i
OccursAt(s, pat, i) ==
    i + Len(pat) - 1 <= Len(s) /\ SubSeq(s, i, i + Len(pat) - 1) = pat

\* mutant: find(pat).unwrap_or(start of the string)
Find_OrStart(s, pat) ==
    IF \E i \in 1..Len(s) : OccursAt(s, pat, i)
    THEN CHOOSE i \in 1..Len(s) :
             OccursAt(s, pat, i) /\ \A j \in 1..(i - 1) : ~OccursAt(s, pat, j)
    ELSE 1

\* str::find: the first position of pat in s, 0 if there is none
Find(s, pat) ==
    IF \E i \in 1..Len(s) : OccursAt(s, pat, i)
    THEN CHOOSE i \in 1..Len(s) :
             OccursAt(s, pat, i) /\ \A j \in 1..(i - 1) : ~OccursAt(s, pat, j)
    ELSE 0

\* str::contains
Contains(s, pat) == Find(s, pat) # 0

\* str::starts_with
StartsWith(s, pat) == OccursAt(s, pat, 1)

\* "@sha256:"
DigestMarker == <<"@", "sha256:">>
\* "ghcr.io"
GhcrHost == <<"ghcr.io">>
\* "ghcr.io/"
GhcrPrefix == <<"ghcr.io", "/">>

\* mutant: the slice starts at the '@'
ExtractDigestFromReference_KeepAt(image_reference) ==
    LET start == Find(image_reference, DigestMarker) IN
    IF start # 0
    THEN [ok |-> TRUE,
          digest |-> SubSeq(image_reference, start, Len(image_reference))]
    ELSE [ok |-> FALSE, digest |-> <<>>]

\* extract_digest_from_reference: everything after the '@' of the first "@sha256:"
ExtractDigestFromReference(image_reference) ==
    LET start == Find(image_reference, DigestMarker) IN
    IF start # 0
    THEN [ok |-> TRUE,
          digest |-> SubSeq(image_reference, start + 1, Len(image_reference))]
    ELSE [ok |-> FALSE, digest |-> <<>>]

\* sign_image_with_oci: the reference the evidence is attached to
GhcrReference(image_reference) ==
    IF StartsWith(image_reference, GhcrPrefix)
    THEN [ok |-> TRUE, reference |-> image_reference]
    ELSE LET slash == Find(image_reference, <<"/">>) IN
         IF slash # 0
         THEN [ok |-> TRUE,
               reference |-> GhcrPrefix \o
                   SubSeq(image_reference, slash + 1, Len(image_reference))]
         ELSE [ok |-> FALSE, reference |-> <<>>]

\* Pubkey's Display: the base58 string of a key
PubkeyToString(key) == <<"base58", key>>

\* Pubkey::from_str
PubkeyFromStr(s) ==
    IF Len(s) = 2 /\ s[1] = "base58" /\ s[2] \in Signers
    THEN [ok |-> TRUE, key |-> s[2]]
    ELSE [ok |-> FALSE, key |-> "none"]

\* the expected-signer strings given to verify
ExpectedSigners == {PubkeyToString(k) : k \in Signers} \cup {<<"not-a-key">>}

\* decimal text of the memo's version
VersionToStr(n) == IF n = 1 THEN "1" ELSE "0"
StrToVersion(t) == IF t = "1" THEN 1 ELSE 0

\* serde_json::to_string(&ImageSignatureMemo)
SerializeMemo(memo) ==
    <<"{version:", VersionToStr(memo.version), "artifact:{kind:", memo.artifact.kind,
      "digest:">> \o memo.artifact.digest \o <<"}}">>

NoMemo == [version |-> 0, artifact |-> [kind |-> "", digest |-> <<>>]]

\* serde_json::from_str::<ImageSignatureMemo>
ParseMemo(data) ==
    IF /\ Len(data) >= 6
       /\ data[1] = "{version:" /\ data[2] \in {"0", "1"}
       /\ data[3] = "artifact:{kind:" /\ data[5] = "digest:"
       /\ data[Len(data)] = "}}"
    THEN [ok |-> TRUE,
          memo |-> [version |-> StrToVersion(data[2]),
                    artifact |-> [kind |-> data[4],
                                  digest |-> SubSeq(data, 6, Len(data) - 1)]]]
    ELSE [ok |-> FALSE, memo |-> NoMemo]

\* sign_docker_image: the memo for a digest
SignatureMemo(digest) ==
    [version |-> 1, artifact |-> [kind |-> "oci-image", digest |-> digest]]

\* transaction signatures, as strings, in ledger order
TxIdNames == <<"tx1", "tx2", "tx3", "tx4", "tx5">>
TxIdStr(i) == TxIdNames[i]

\* Signature::from_str and the lookup of the transaction: its place in the
\* ledger, 0 if the string is no signature
TxIndex(s) ==
    IF \E i \in DOMAIN TxIdNames : TxIdNames[i] = s
    THEN CHOOSE i \in DOMAIN TxIdNames : TxIdNames[i] = s
    ELSE 0

\* RFC3339 timestamps, in time order
TimeNames == <<"t1", "t2", "t3", "t4", "t5">>
TimeStr(n) == TimeNames[n]

\* 1970-01-01T00:00:00Z
EpochTime == 0

\* the fallback date, as text
EpochStr == "1970-01-01T00:00:00Z"
\* a timestamp one second before the fallback date
PreEpochStr == "1969-12-31T23:59:59Z"

\* chrono::DateTime::parse_from_rfc3339
ParseRfc3339(s) ==
    IF \E n \in DOMAIN TimeNames : TimeNames[n] = s
    THEN [ok |-> TRUE, time |-> CHOOSE n \in DOMAIN TimeNames : TimeNames[n] = s]
    ELSE IF s = EpochStr THEN [ok |-> TRUE, time |-> EpochTime]
    ELSE IF s = PreEpochStr THEN [ok |-> TRUE, time |-> EpochTime - 1]
    ELSE [ok |-> FALSE, time |-> EpochTime]

\* "application/vnd.skelz.proof.v1+json"
SkelzArtifactType == "application/vnd.skelz.proof.v1+json"

----------------------------------------------------------------------------
(* The CLI: evidence discovery *)

\* the creation time an artifact is ordered by
CreatedTime(artifact) ==
    LET ann == artifact.annotations
        created ==
            IF "org.opencontainers.artifact.created" \in DOMAIN ann
            THEN <<ann["org.opencontainers.artifact.created"]>>
            ELSE IF "org.opencontainers.image.created" \in DOMAIN ann
            THEN <<ann["org.opencontainers.image.created"]>>
            ELSE <<>>
    IN  IF created # <<>> /\ ParseRfc3339(created[1]).ok
        THEN ParseRfc3339(created[1]).time
        ELSE EpochTime

\* the filter of get_latest_skelz_artifact
IsSkelzArtifactFor(artifact, expected_image) ==
    /\ "skelz.signature" \in DOMAIN artifact.annotations
    /\ artifact.artifactType = SkelzArtifactType
    /\ "skelz.original-image" \in DOMAIN artifact.annotations
    /\ artifact.annotations["skelz.original-image"] = expected_image

\* mutant: time_a.cmp(&time_b), oldest first
RECURSIVE InsertByCreated_OldestFirst(_, _)
InsertByCreated_OldestFirst(sorted, x) ==
    IF sorted = <<>> THEN <<x>>
    ELSE IF CreatedTime(x) < CreatedTime(Head(sorted)) THEN <<x>> \o sorted
    ELSE <<Head(sorted)>> \o InsertByCreated_OldestFirst(Tail(sorted), x)

\* mutant: among equal times the later artifact of the list comes first
RECURSIVE InsertByCreated_LastOfTied(_, _)
InsertByCreated_LastOfTied(sorted, x) ==
    IF sorted = <<>> THEN <<x>>
    ELSE IF CreatedTime(x) >= CreatedTime(Head(sorted)) THEN <<x>> \o sorted
    ELSE <<Head(sorted)>> \o InsertByCreated_LastOfTied(Tail(sorted), x)

\* sort_by(|a, b| time_b.cmp(&time_a)): a stable sort, most recent first
RECURSIVE InsertByCreated(_, _)
InsertByCreated(sorted, x) ==
    IF sorted = <<>> THEN <<x>>
    ELSE IF CreatedTime(x) > CreatedTime(Head(sorted)) THEN <<x>> \o sorted
    ELSE <<Head(sorted)>> \o InsertByCreated(Tail(sorted), x)

RECURSIVE SortByCreated(_)
SortByCreated(s) ==
    IF s = <<>> THEN <<>>
    ELSE InsertByCreated(SortByCreated(SubSeq(s, 1, Len(s) - 1)), s[Len(s)])

NoArtifact == [subject |-> <<>>, artifactType |-> "", annotations |-> <<>>]

\* mutant: the filter does not compare the original-image annotation
SkelzArtifactsFor_AnyImage(artifacts, expected_image) ==
    SelectSeq(artifacts, LAMBDA a :
        "skelz.signature" \in DOMAIN a.annotations /\ a.artifactType = SkelzArtifactType)

\* mutant: the filter does not ask for the signature annotation
SkelzArtifactsFor_NoSignature(artifacts, expected_image) ==
    SelectSeq(artifacts, LAMBDA a :
        /\ a.artifactType = SkelzArtifactType
        /\ "skelz.original-image" \in DOMAIN a.annotations
        /\ a.annotations["skelz.original-image"] = expected_image)

\* mutant: the filter does not compare the artifact type
SkelzArtifactsFor_AnyType(artifacts, expected_image) ==
    SelectSeq(artifacts, LAMBDA a :
        /\ "skelz.signature" \in DOMAIN a.annotations
        /\ "skelz.original-image" \in DOMAIN a.annotations
        /\ a.annotations["skelz.original-image"] = expected_image)

\* the artifacts that pass the filter, in the order discovered
SkelzArtifactsFor(artifacts, expected_image) ==
    SelectSeq(artifacts, LAMBDA a : IsSkelzArtifactFor(a, expected_image))

\* get_latest_skelz_artifact
GetLatestSkelzArtifact(artifacts, expected_image) ==
    LET skelz_artifacts == SkelzArtifactsFor(artifacts, expected_image) IN
    IF skelz_artifacts = <<>>
    THEN [ok |-> FALSE, artifact |-> NoArtifact]
    ELSE [ok |-> TRUE, artifact |-> SortByCreated(skelz_artifacts)[1]]

\* discover_oci_artifacts: the referrers of the image, in registry order
DiscoverOciArtifacts(reg, image_reference) ==
    SelectSeq(reg, LAMBDA a : a.subject = image_reference)

----------------------------------------------------------------------------
(* The CLI: verification *)

NoRecord == [ok |-> FALSE, error |-> "", signer |-> <<>>, memo |-> NoMemo]

\* fetch_solana_transaction_with_memo
FetchSolanaTransactionWithMemo(tx_signature, ledger, rpcOk) ==
    LET i == TxIndex(tx_signature) IN
    IF i = 0 THEN [NoRecord EXCEPT !.error = "InvalidTxSignature"]
    ELSE IF ~rpcOk THEN [NoRecord EXCEPT !.error = "TransportError"]
    ELSE IF i > Len(ledger) THEN [NoRecord EXCEPT !.error = "TxNotFound"]
    ELSE LET parsed == ParseMemo(ledger[i].data) IN
         IF ~parsed.ok THEN [NoRecord EXCEPT !.error = "MemoParseError"]
         ELSE [ok |-> TRUE, error |-> "",
               signer |-> PubkeyToString(ledger[i].signer), memo |-> parsed.memo]

\* mutant: any signer is accepted
VerifyTransactionSigner_Any(signer_pubkey, expected_signer) ==
    IF ~PubkeyFromStr(expected_signer).ok THEN "InvalidExpectedSigner" ELSE "Ok"

\* verify_transaction_signer
VerifyTransactionSigner(signer_pubkey, expected_signer) ==
    IF ~PubkeyFromStr(expected_signer).ok THEN "InvalidExpectedSigner"
    ELSE IF ~PubkeyFromStr(signer_pubkey).ok THEN "InvalidSigner"
    ELSE IF PubkeyFromStr(signer_pubkey).key # PubkeyFromStr(expected_signer).key
    THEN "SignerMismatch"
    ELSE "Ok"

\* mutant: the memo's digest is compared as a prefix of the expected one
VerifyImageDigest_Prefix(memo, expected_image_reference) ==
    LET expected == ExtractDigestFromReference(expected_image_reference) IN
    IF ~expected.ok THEN "InvalidReference"
    ELSE IF ~StartsWith(expected.digest, memo.artifact.digest) THEN "DigestMismatch"
    ELSE IF memo.artifact.kind # "oci-image" THEN "InvalidArtifactKind"
    ELSE "Ok"

\* verify_image_digest
VerifyImageDigest(memo, expected_image_reference) ==
    LET expected == ExtractDigestFromReference(expected_image_reference) IN
    IF ~expected.ok THEN "InvalidReference"
    ELSE IF memo.artifact.digest # expected.digest THEN "DigestMismatch"
    ELSE IF memo.artifact.kind # "oci-image" THEN "InvalidArtifactKind"
    ELSE "Ok"

\* the stages of the verification pipeline, in order
Stages == <<"ValidateReference", "DiscoverEvidence", "ExtractTxId", "ResolveRecord",
            "CompareSigner", "CompareDigest">>

\* the verification ended at stage n with this outcome
Ended(n, outcome, selected, record) ==
    [trace |-> SubSeq(Stages, 1, n), outcome |-> outcome,
     selected |-> selected, record |-> record]

\* mutant: steps 6 and 7 of verify_image_signature in the other order
CompareStages_DigestFirst(record, image_reference, expected_signer, selected) ==
    LET digest == VerifyImageDigest(record.memo, image_reference)
        signer == VerifyTransactionSigner(record.signer, expected_signer)
    IN  IF digest # "Ok" THEN Ended(6, digest, selected, record)
        ELSE IF signer # "Ok" THEN Ended(6, signer, selected, record)
        ELSE Ended(6, "Verified", selected, record)

\* steps 6 and 7 of verify_image_signature
CompareStages(record, image_reference, expected_signer, selected) ==
    LET signer == VerifyTransactionSigner(record.signer, expected_signer)
        digest == VerifyImageDigest(record.memo, image_reference)
    IN  IF signer # "Ok" THEN Ended(5, signer, selected, record)
        ELSE IF digest # "Ok" THEN Ended(6, digest, selected, record)
        ELSE Ended(6, "Verified", selected, record)

\* verify_image_signature, on the registry and the ledger as they are;
\* orasOk and rpcOk say whether the external calls get through
VerifyImageSignature(image_reference, expected_signer, reg, ledger, orasOk, rpcOk) ==
    IF ~Contains(image_reference, DigestMarker)
    THEN Ended(1, "InvalidReference", NoArtifact, NoRecord)
    ELSE IF ~StartsWith(image_reference, GhcrHost)
    THEN Ended(1, "UnsupportedRegistry", NoArtifact, NoRecord)
    ELSE IF ~orasOk
    THEN Ended(2, "ExternalToolError", NoArtifact, NoRecord)
    ELSE
    LET artifacts == DiscoverOciArtifacts(reg, image_reference)
        latest == GetLatestSkelzArtifact(artifacts, image_reference)
    IN
    IF ~latest.ok
    THEN Ended(2, "NoEvidenceFound", NoArtifact, NoRecord)
    ELSE IF "skelz.signature" \notin DOMAIN latest.artifact.annotations
    THEN Ended(3, "MissingSignatureAnnotation", latest.artifact, NoRecord)
    ELSE
    LET record == FetchSolanaTransactionWithMemo(
                      latest.artifact.annotations["skelz.signature"], ledger, rpcOk)
    IN
    IF ~record.ok
    THEN Ended(4, record.error, latest.artifact, record)
    ELSE CompareStages(record, image_reference, expected_signer, latest.artifact)

----------------------------------------------------------------------------
(* The CLI: configuration *)

\* an Option: <<>> is None, <<v>> is Some(v)
None == <<>>
Some(v) == <<v>>

\* text values: strings of characters; "env" and the like stand for one or
\* more characters that are not whitespace
EmptyStr == <<>>
BlankStr == <<" ">>

\* str::trim
RECURSIVE TrimStart(_)
TrimStart(str) ==
    IF str # <<>> /\ Head(str) = " " THEN TrimStart(Tail(str)) ELSE str

RECURSIVE TrimEnd(_)
TrimEnd(str) ==
    IF str # <<>> /\ str[Len(str)] = " " THEN TrimEnd(SubSeq(str, 1, Len(str) - 1)) ELSE str

Trim(str) == TrimEnd(TrimStart(str))

\* expand_tilde, with a home directory
ExpandTilde(path) ==
    IF path # <<>> /\ Head(path) = "~/" THEN <<"/home/user/">> \o Tail(path) ELSE path

\* default_solana_keypair_path
DefaultSolanaKeypairPath(env) ==
    IF env.SOLANA_KEYPAIR # None /\ Trim(env.SOLANA_KEYPAIR[1]) # EmptyStr
    THEN ExpandTilde(env.SOLANA_KEYPAIR[1])
    ELSE <<"/home/user/", ".config/", "skelz/", "id.json">>

\* SkelzConfig::default()
DefaultConfig(env) ==
    [cluster |-> <<"devnet">>,
     rpc_url |-> <<"https://api.devnet.solana.com">>,
     keypair_path |-> DefaultSolanaKeypairPath(env),
     commitment |-> <<"confirmed">>,
     ghcr_user |-> None, ghcr_token |-> None]

\* mutant: the environment variable is looked at before the override
LoadConfigWithOverrides_EnvFirst(rpc_url, keypair_path, env, file) ==
    LET cfg == IF file = None THEN DefaultConfig(env) ELSE file[1]
        rpc == IF env.SOLANA_RPC_URL # None /\ Trim(env.SOLANA_RPC_URL[1]) # EmptyStr
               THEN env.SOLANA_RPC_URL[1]
               ELSE IF rpc_url # None THEN rpc_url[1]
               ELSE cfg.rpc_url
        kp == IF keypair_path # None THEN ExpandTilde(keypair_path[1])
              ELSE IF env.SOLANA_KEYPAIR # None /\ Trim(env.SOLANA_KEYPAIR[1]) # EmptyStr
              THEN ExpandTilde(env.SOLANA_KEYPAIR[1])
              ELSE cfg.keypair_path
    IN  [cfg EXCEPT !.rpc_url = rpc, !.keypair_path = kp]

\* load_config_with_overrides; file is the configuration read_config_file
\* returns, None when it fails
LoadConfigWithOverrides(rpc_url, keypair_path, env, file) ==
    LET cfg == IF file = None THEN DefaultConfig(env) ELSE file[1]
        rpc == IF rpc_url # None THEN rpc_url[1]
               ELSE IF env.SOLANA_RPC_URL # None /\ Trim(env.SOLANA_RPC_URL[1]) # EmptyStr
               THEN env.SOLANA_RPC_URL[1]
               ELSE cfg.rpc_url
        kp == IF keypair_path # None THEN ExpandTilde(keypair_path[1])
              ELSE IF env.SOLANA_KEYPAIR # None /\ Trim(env.SOLANA_KEYPAIR[1]) # EmptyStr
              THEN ExpandTilde(env.SOLANA_KEYPAIR[1])
              ELSE cfg.keypair_path
    IN  [cfg EXCEPT !.rpc_url = rpc, !.keypair_path = kp]

\* toml::to_string_pretty(cfg): the key/value lines; a None field is skipped
ToToml(cfg) ==
    <<<<"cluster", cfg.cluster>>, <<"rpc_url", cfg.rpc_url>>,
      <<"keypair_path", cfg.keypair_path>>, <<"commitment", cfg.commitment>>>>
    \o (IF cfg.ghcr_user # None THEN <<<<"ghcr_user", cfg.ghcr_user[1]>>>> ELSE <<>>)
    \o (IF cfg.ghcr_token # None THEN <<<<"ghcr_token", cfg.ghcr_token[1]>>>> ELSE <<>>)

\* the value of a key in a TOML text, None if the key is not there
TomlValue(text, key) ==
    IF \E i \in DOMAIN text : text[i][1] = key
    THEN Some(text[CHOOSE i \in DOMAIN text : text[i][1] = key][2])
    ELSE None

\* toml::from_str::<SkelzConfig>; the four required fields must be there
FromToml(text) ==
    IF \A key \in {"cluster", "rpc_url", "keypair_path", "commitment"} :
           TomlValue(text, key) # None
    THEN Some([cluster |-> TomlValue(text, "cluster")[1],
               rpc_url |-> TomlValue(text, "rpc_url")[1],
               keypair_path |-> TomlValue(text, "keypair_path")[1],
               commitment |-> TomlValue(text, "commitment")[1],
               ghcr_user |-> TomlValue(text, "ghcr_user"),
               ghcr_token |-> TomlValue(text, "ghcr_token")])
    ELSE None

\* mutant: an existing file is never overwritten
WriteConfigFile_IgnoreForce(file, cfg, force, io) ==
    IF file # None THEN [result |-> "ConfigExists", file |-> file]
    ELSE IF io = "create_dir_all fails" THEN [result |-> "IoError", file |-> file]
    ELSE IF io = "create fails" THEN [result |-> "IoError", file |-> file]
    ELSE IF io = "write_all fails" THEN [result |-> "IoError", file |-> Some(<<>>)]
    ELSE [result |-> "Ok", file |-> Some(ToToml(cfg))]

\* write_config_file; file is the content at the path, None when nothing
\* exists there; io says which file-system call fails, if any
WriteConfigFile(file, cfg, force, io) ==
    IF file # None /\ ~force THEN [result |-> "ConfigExists", file |-> file]
    ELSE IF io = "create_dir_all fails" THEN [result |-> "IoError", file |-> file]
    ELSE IF io = "create fails" THEN [result |-> "IoError", file |-> file]
    \* File::create has truncated the file
    ELSE IF io = "write_all fails" THEN [result |-> "IoError", file |-> Some(<<>>)]
    ELSE [result |-> "Ok", file |-> Some(ToToml(cfg))]

\* Option::filter(|v| !v.trim().is_empty())
FilterNotBlank(opt) == IF opt # None /\ Trim(opt[1]) # EmptyStr THEN opt ELSE None

\* Option::or_else
OrElse(opt, other) == IF opt # None THEN opt ELSE other

\* resolve_ghcr_credentials
ResolveGhcrCredentials(cfg, env) ==
    LET user == OrElse(FilterNotBlank(env.GHCR_USER), cfg.ghcr_user)
        token == OrElse(FilterNotBlank(env.GHCR_TOKEN), cfg.ghcr_token)
    IN  IF user # None /\ token # None
        THEN [ok |-> TRUE, user |-> user[1], token |-> token[1]]
        ELSE [ok |-> FALSE, user |-> EmptyStr, token |-> EmptyStr]

\* main, registry login: the credentials, then the --username override
RegistryLoginCredentials(username, cfg, env) ==
    LET resolved == ResolveGhcrCredentials(cfg, env) IN
    IF ~resolved.ok THEN resolved
    ELSE IF username # None THEN [resolved EXCEPT !.user = username[1]]
    ELSE resolved

----------------------------------------------------------------------------
(* State *)

VARIABLES
    accounts,    \* the ledger's accounts owned by the program: address -> record
    writeLog,    \* executed write_signature transactions, in ledger order
    lastRead,    \* result of the latest account fetch
    clientPc,    \* the test client's position in its script
    txs,         \* the ledger's confirmed memo transactions, in ledger order
    registry,    \* the artifacts attached in the registry, in the order attached
    sign,        \* the sign invocation
    verify,      \* the latest verify invocation
    args,        \* the arguments of a direct call of a library function
    ret          \* what that call returned: <<>> before it returns

ledgerVars == <<accounts, writeLog, lastRead, clientPc>>

cliVars == <<txs, registry, sign, verify>>

pureVars == <<args, ret>>

vars == <<accounts, writeLog, lastRead, clientPc, txs, registry, sign, verify, args, ret>>

\* no verify command is running
VerifyIdle ==
    [pc |-> "idle", ref |-> <<>>, expected |-> <<>>, artifacts |-> <<>>,
     trace |-> <<>>, outcome |-> "", selected |-> NoArtifact, record |-> NoRecord]

LedgerInit ==
    /\ accounts = [a \in Addresses |-> NoAccount]
    /\ writeLog = <<>>
    /\ lastRead = [addr |-> <<>>, found |-> FALSE, record |-> NoAccount]
    /\ clientPc = "test1"

CliInit ==
    /\ txs = <<>>
    /\ registry = <<>>
    /\ sign = [pc |-> "idle", signer |-> "none", ref |-> <<>>, txid |-> "", error |-> "",
               file |-> "none"]
    /\ verify = VerifyIdle

\* no library function is called directly
NoArgs == [fn |-> "none", artifacts |-> <<>>, ref |-> <<>>, memo |-> NoMemo,
           signer |-> <<>>, expected |-> <<>>,
           cli |-> <<>>, env |-> <<>>, file |-> <<>>, cfg |-> <<>>,
           force |-> FALSE, io |-> ""]

NoCall ==
    /\ args = NoArgs
    /\ ret = <<>>

----------------------------------------------------------------------------
(* The ledger program's transactions *)

\* the ledger executes one write_signature transaction, atomically
ExecuteWrite(signer, addr, digest) ==
    LET res == WriteOutcome(accounts, addr, digest) IN
    /\ Len(writeLog) < MaxWrites
    /\ writeLog' = Append(writeLog,
           [signer |-> signer, addr |-> addr, digest |-> digest, result |-> res])
    /\ accounts' = IF res = "Ok"
                   THEN [accounts EXCEPT ![addr] =
                            [init |-> TRUE, digest |-> digest, signer |-> signer]]
                   ELSE accounts

\* any client submits write_signature, naming any program address
WriteSignature ==
    \E signer \in Signers, addr \in ProgramAddresses, digest \in Digests :
        /\ ExecuteWrite(signer, addr, digest)
        /\ UNCHANGED <<lastRead, clientPc>>
        /\ UNCHANGED cliVars
        /\ UNCHANGED pureVars

\* the test client's Test 1: derive the address, send write_signature; `?`
\* ends the script on an error
RustClientWrite ==
    \E payer \in Signers :
        /\ clientPc = "test1"
        /\ ExecuteWrite(payer, ClientDerive(DigestTest), DigestTest)
        /\ clientPc' = IF WriteOutcome(accounts, ClientDerive(DigestTest), DigestTest) = "Ok"
                       THEN "test2" ELSE "aborted"
        /\ UNCHANGED lastRead
        /\ UNCHANGED cliVars
        /\ UNCHANGED pureVars

\* program.account::<Signature>(address): fetch a record
ReadAccount ==
    \E addr \in Addresses :
        /\ lastRead' = [addr |-> addr, found |-> accounts[addr].init,
                        record |-> accounts[addr]]
        /\ UNCHANGED <<accounts, writeLog, clientPc>>
        /\ UNCHANGED cliVars
        /\ UNCHANGED pureVars

----------------------------------------------------------------------------
(* The CLI's sign and verify commands, and the registry's other users *)

\* mutant: the tool annotation is not passed to `oras attach`
EvidenceAnnotations_NoTool(signature, image_reference, now) ==
    [k \in {"skelz.signature", "skelz.original-image",
            "org.opencontainers.image.created"} |->
        CASE k = "skelz.signature" -> signature
          [] k = "skelz.original-image" -> image_reference
          [] OTHER -> now]

\* the annotations of the evidence `oras attach` creates: the three passed on
\* the command line, and the creation time oras adds itself
EvidenceAnnotations(signature, image_reference, now) ==
    [k \in {"skelz.signature", "skelz.original-image", "skelz.tool",
            "org.opencontainers.image.created"} |->
        CASE k = "skelz.signature" -> signature
          [] k = "skelz.original-image" -> image_reference
          [] k = "skelz.tool" -> "skelz-cli@v1.0.0"
          [] OTHER -> now]

\* the time of the next attachment
Now == TimeStr(Len(registry) + 1)

\* main's checks of the sign command, then sign_image_with_oci up to the
\* confirmed memo transaction (sign_docker_image, sign_memo)
SignStart ==
    \E signer \in Signers, image_reference \in ImageRefs, rpcOk \in BOOLEAN :
        \* the keypair is read by sign_memo, after the reference is checked
        LET failed(e) == [pc |-> "failed", signer |-> "none", ref |-> image_reference,
                          txid |-> "", error |-> e, file |-> "none"]
            digest == ExtractDigestFromReference(image_reference)
        IN
        /\ verify.pc = "idle"
        /\ sign.pc # "signed"
        /\ IF ~Contains(image_reference, DigestMarker)
           THEN sign' = failed("InvalidReference") /\ txs' = txs
           ELSE IF ~StartsWith(image_reference, GhcrHost)
           THEN sign' = failed("UnsupportedRegistry") /\ txs' = txs
           ELSE IF ~digest.ok
           THEN sign' = failed("InvalidReference") /\ txs' = txs
           ELSE IF ~rpcOk
           THEN sign' = failed("TransportError") /\ txs' = txs
           ELSE /\ Len(txs) < MaxTx
                /\ txs' = Append(txs, [signer |-> signer,
                              data |-> SerializeMemo(SignatureMemo(digest.digest))])
                /\ sign' = [pc |-> "signed", signer |-> signer, ref |-> image_reference,
                            txid |-> TxIdStr(Len(txs) + 1), error |-> "", file |-> "none"]
        /\ UNCHANGED <<registry, verify>>
        /\ UNCHANGED ledgerVars
        /\ UNCHANGED pureVars

\* mutant: the result of sign_docker_image is not propagated with `?`, the
\* attach runs also after a failed ledger write
SignAttach_AfterFailure ==
    \E orasOk \in BOOLEAN :
        LET ghcr_reference == GhcrReference(sign.ref) IN
        /\ verify.pc = "idle"
        /\ sign.pc \in {"signed", "failed"}
        /\ IF ~ghcr_reference.ok \/ ~orasOk
           THEN sign' = [sign EXCEPT !.pc = "failed", !.error = "PublishFailed",
                                     !.file = "written"]
                /\ registry' = registry
           ELSE /\ Len(registry) < MaxArtifacts
                /\ registry' = Append(registry,
                       [subject |-> ghcr_reference.reference,
                        artifactType |-> SkelzArtifactType,
                        annotations |-> EvidenceAnnotations(sign.txid, sign.ref, Now)])
                /\ sign' = [sign EXCEPT !.pc = "done", !.file = "removed"]
        /\ UNCHANGED <<txs, verify>>
        /\ UNCHANGED ledgerVars
        /\ UNCHANGED pureVars

\* the rest of sign_image_with_oci: skelz-signature.json is written, the
\* evidence is attached by `oras attach`, and the file is removed
SignAttach ==
    \E orasOk \in BOOLEAN :
        LET ghcr_reference == GhcrReference(sign.ref) IN
        /\ verify.pc = "idle"
        /\ sign.pc = "signed"
        /\ IF ~ghcr_reference.ok
           THEN sign' = [sign EXCEPT !.pc = "failed", !.error = "InvalidReferenceFormat",
                                     !.file = "written"]
                /\ registry' = registry
           ELSE IF ~orasOk
           THEN sign' = [sign EXCEPT !.pc = "failed", !.error = "PublishFailed",
                                     !.file = "written"]
                /\ registry' = registry
           ELSE /\ Len(registry) < MaxArtifacts
                /\ registry' = Append(registry,
                       [subject |-> ghcr_reference.reference,
                        artifactType |-> SkelzArtifactType,
                        annotations |-> EvidenceAnnotations(sign.txid, sign.ref, Now)])
                /\ sign' = [sign EXCEPT !.pc = "done", !.file = "removed"]
        /\ UNCHANGED <<txs, verify>>
        /\ UNCHANGED ledgerVars
        /\ UNCHANGED pureVars

\* the sign process stops after the ledger write and before the attach, with
\* skelz-signature.json written or not
SignCrash ==
    /\ verify.pc = "idle"
    /\ sign.pc = "signed"
    /\ \E file \in {"none", "written"} :
           sign' = [sign EXCEPT !.pc = "crashed", !.file = file]
    /\ UNCHANGED <<txs, registry, verify>>
    /\ UNCHANGED ledgerVars
    /\ UNCHANGED pureVars

\* another user of the registry attaches, with `oras attach`, a proof artifact
\* to an image of theirs: it names a transaction that is on the ledger
ForeignAttach ==
    \E subject \in {RefA, RefEvil}, signature \in {TxIdStr(i) : i \in 1..Len(txs)} :
        /\ verify.pc = "idle"
        /\ Len(registry) < MaxArtifacts
        /\ registry' = Append(registry,
               [subject |-> subject,
                artifactType |-> SkelzArtifactType,
                annotations |-> EvidenceAnnotations(signature, subject, Now)])
        /\ UNCHANGED <<txs, sign, verify>>
        /\ UNCHANGED ledgerVars
        /\ UNCHANGED pureVars

\* mutant: a verification that fails removes the evidence it selected
Verify_RemovesFailedEvidence ==
    \E image_reference \in ImageRefs, expected_signer \in ExpectedSigners,
       net \in {"up", "oras down", "rpc down"} :
        LET orasOk == net # "oras down"
            rpcOk == net # "rpc down"
            run == VerifyImageSignature(image_reference, expected_signer,
                                        registry, txs, orasOk, rpcOk)
        IN
        /\ verify.pc = "idle"
        /\ verify' = [pc |-> "done", ref |-> image_reference,
                      expected |-> expected_signer,
                      artifacts |-> IF Len(run.trace) >= 2 /\ orasOk
                                    THEN DiscoverOciArtifacts(registry, image_reference)
                                    ELSE <<>>,
                      trace |-> run.trace, outcome |-> run.outcome,
                      selected |-> run.selected, record |-> run.record]
        /\ registry' = IF run.outcome = "Verified" THEN registry
                       ELSE SelectSeq(registry, LAMBDA a : a # run.selected)
        /\ UNCHANGED <<txs, sign>>
        /\ UNCHANGED ledgerVars
        /\ UNCHANGED pureVars

\* verify_image_signature; one of the two external calls may fail
Verify ==
    \E image_reference \in ImageRefs, expected_signer \in ExpectedSigners,
       net \in {"up", "oras down", "rpc down"} :
        LET orasOk == net # "oras down"
            rpcOk == net # "rpc down"
            run == VerifyImageSignature(image_reference, expected_signer,
                                        registry, txs, orasOk, rpcOk)
        IN
        /\ verify.pc = "idle"
        /\ verify' = [pc |-> "done", ref |-> image_reference,
                      expected |-> expected_signer,
                      artifacts |-> IF Len(run.trace) >= 2 /\ orasOk
                                    THEN DiscoverOciArtifacts(registry, image_reference)
                                    ELSE <<>>,
                      trace |-> run.trace, outcome |-> run.outcome,
                      selected |-> run.selected, record |-> run.record]
        /\ UNCHANGED <<txs, registry, sign>>
        /\ UNCHANGED ledgerVars
        /\ UNCHANGED pureVars

\* the verify command exits, its report read
VerifyExit ==
    /\ verify.pc = "done"
    /\ verify' = VerifyIdle
    /\ UNCHANGED <<txs, registry, sign>>
    /\ UNCHANGED ledgerVars
    /\ UNCHANGED pureVars

----------------------------------------------------------------------------
(* Direct calls of the library's functions *)

\* longest artifact list given to get_latest_skelz_artifact
MaxList == 3

\* ghcr.io/acme@sha256:abc
RefShort == <<"ghcr.io", "/", "acme", "@", "sha256:", "abc">>
\* ghcr.io/acme@sha256:AA..A
RefUpper == <<"ghcr.io", "/", "acme", "@", "sha256:", "A64">>
\* ghcr.io/acme@sha512:aa..a
RefSha512 == <<"ghcr.io", "/", "acme", "@", "sha512:", "a64">>
\* ghcr.io/acme@sha256:aa..a@sha256:bb..b
RefDouble == <<"ghcr.io", "/", "acme", "@", "sha256:", "a64", "@", "sha256:", "b64">>

\* image references given to the library's functions
LibraryRefs == ImageRefs \cup {RefShort, RefUpper, RefSha512, RefDouble}

\* an annotation map; each argument is <<>> (no such annotation) or <<value>>
Annotations(signature, original, createdKey, created, tool) ==
    LET keys == (IF signature # <<>> THEN {"skelz.signature"} ELSE {})
                \cup (IF original # <<>> THEN {"skelz.original-image"} ELSE {})
                \cup (IF created # <<>> THEN {createdKey} ELSE {})
                \cup (IF tool # <<>> THEN {"skelz.tool"} ELSE {})
    IN  [k \in keys |->
            CASE k = "skelz.signature" -> signature[1]
              [] k = "skelz.original-image" -> original[1]
              [] k = "skelz.tool" -> tool[1]
              [] OTHER -> created[1]]

\* an artifact of the discover response, attached to ghcr.io/acme@sha256:aa..a
Referrer(artifactType, signature, original, createdKey, created, tool) ==
    [subject |-> RefA, artifactType |-> artifactType,
     annotations |-> Annotations(signature, original, createdKey, created, tool)]

ImageCreated == "org.opencontainers.image.created"
ArtifactCreated == "org.opencontainers.artifact.created"
Tool == <<"skelz-cli@v1.0.0">>

\* the artifacts a discover response is made of
Referrers ==
    { \* proof artifacts for RefA, created at t1, at t2, and a second one at t2
      Referrer(SkelzArtifactType, <<"tx1">>, <<RefA>>, ImageCreated, <<"t1">>, Tool),
      Referrer(SkelzArtifactType, <<"tx2">>, <<RefA>>, ImageCreated, <<"t2">>, Tool),
      Referrer(SkelzArtifactType, <<"tx3">>, <<RefA>>, ArtifactCreated, <<"t2">>, Tool),
      \* no creation time, an unparseable one, one before 1970
      Referrer(SkelzArtifactType, <<"tx4">>, <<RefA>>, ImageCreated, <<>>, Tool),
      Referrer(SkelzArtifactType, <<"tx5">>, <<RefA>>, ImageCreated, <<"yesterday">>, Tool),
      Referrer(SkelzArtifactType, <<"tx1">>, <<RefA>>, ImageCreated, <<PreEpochStr>>, Tool),
      \* no tool annotation
      Referrer(SkelzArtifactType, <<"tx2">>, <<RefA>>, ImageCreated, <<"t3">>, <<>>),
      \* another artifact type, no signature, another image, no original image
      Referrer("application/vnd.cncf.notary.signature", <<"tx1">>, <<RefA>>,
               ImageCreated, <<"t4">>, Tool),
      Referrer(SkelzArtifactType, <<>>, <<RefA>>, ImageCreated, <<"t4">>, Tool),
      Referrer(SkelzArtifactType, <<"tx1">>, <<RefB>>, ImageCreated, <<"t4">>, Tool),
      Referrer(SkelzArtifactType, <<"tx1">>, <<>>, ImageCreated, <<"t4">>, Tool) }

\* the sequences over S of length at most n
SeqsUpTo(S, n) == UNION {[1..k -> S] : k \in 0..n}

\* memos a transaction may carry
Memos ==
    {[version |-> 1, artifact |-> [kind |-> k, digest |-> d]] :
        k \in {"oci-image", "sbom"},
        d \in {DigestA, DigestB, <<"sha256:", "a63b">>, <<"sha256:", "A64">>,
                <<"sha256:", "abc">>, <<"a64">>}}

\* strings given as public keys
KeyStrings == {PubkeyToString(k) : k \in Signers} \cup {<<"not-a-key">>, <<"base58", "S1", " ">>}

\* values of an environment variable: unset, empty, blank, set
EnvValues == {None, Some(EmptyStr), Some(BlankStr), Some(<<"env">>), Some(<<"~/", "env">>)}

\* values of a command-line option
CliValues == {None, Some(<<"cli">>)}

\* the configuration read from the file
FileConfig ==
    [cluster |-> <<"mainnet">>, rpc_url |-> <<"file">>, keypair_path |-> <<"file">>,
     commitment |-> <<"finalized">>,
     ghcr_user |-> Some(<<"file">>), ghcr_token |-> Some(<<"file">>)]

\* calls of load_config_with_overrides: the overrides, the environment, the file
LoadCalls ==
    {[NoArgs EXCEPT !.fn = "load_config_with_overrides",
                    !.cli = [rpc_url |-> c, keypair_path |-> c],
                    !.env = [SOLANA_RPC_URL |-> e1, SOLANA_KEYPAIR |-> e2],
                    !.file = f] :
        c \in CliValues, e1 \in EnvValues, e2 \in EnvValues, f \in {None, Some(FileConfig)}}

\* calls of registry login's credential resolution
CredentialCalls ==
    {[NoArgs EXCEPT !.fn = "resolve_ghcr_credentials",
                    !.cli = [username |-> c],
                    !.env = [GHCR_USER |-> e1, GHCR_TOKEN |-> e2],
                    !.cfg = [FileConfig EXCEPT !.ghcr_user = u, !.ghcr_token = u]] :
        c \in CliValues, e1 \in EnvValues \ {Some(<<"~/", "env">>)},
        e2 \in EnvValues \ {Some(<<"~/", "env">>)}, u \in {None, Some(<<"file">>)}}

\* calls of write_config_file: the path's content, the configuration, force
WriteCalls ==
    {[NoArgs EXCEPT !.fn = "write_config_file", !.file = f, !.cfg = c,
                    !.force = force, !.io = io] :
        f \in {None, Some(ToToml(FileConfig))},
        c \in {DefaultConfig([SOLANA_KEYPAIR |-> None]),
                [FileConfig EXCEPT !.rpc_url = <<"cli">>, !.ghcr_token = None]},
        force \in BOOLEAN,
        io \in {"ok", "create_dir_all fails", "create fails", "write_all fails"}}

\* a ledger with S1's and S2's memo transactions for "sha256:" + "a"*64
SampleLedger ==
    <<[signer |-> "S1", data |-> SerializeMemo(SignatureMemo(DigestA))],
      [signer |-> "S2", data |-> SerializeMemo(SignatureMemo(DigestA))]>>

\* the artifacts of the registry verify_image_signature is called on: proof
\* artifacts naming S1's transaction, S2's, and one that is not on the ledger,
\* one without a creation time, one without a signature, one for another image
RegistryReferrers ==
    { Referrer(SkelzArtifactType, <<"tx1">>, <<RefA>>, ImageCreated, <<"t1">>, Tool),
      Referrer(SkelzArtifactType, <<"tx2">>, <<RefA>>, ImageCreated, <<"t2">>, Tool),
      Referrer(SkelzArtifactType, <<"tx3">>, <<RefA>>, ArtifactCreated, <<"t2">>, Tool),
      Referrer(SkelzArtifactType, <<"tx4">>, <<RefA>>, ImageCreated, <<>>, Tool),
      Referrer(SkelzArtifactType, <<>>, <<RefA>>, ImageCreated, <<"t4">>, Tool),
      Referrer(SkelzArtifactType, <<"tx1">>, <<RefB>>, ImageCreated, <<"t4">>, Tool) }

\* calls of verify_image_signature for ghcr.io/acme@sha256:aa..a, on a
\* registry holding the given referrers
VerifyCalls ==
    {[NoArgs EXCEPT !.fn = "verify_image_signature", !.artifacts = a, !.ref = RefA,
                    !.expected = PubkeyToString(k)] :
        a \in SeqsUpTo(RegistryReferrers, MaxList), k \in Signers}

\* the command line `skelz verify`: VerifyCmd has no arguments
MainVerifyCalls == {[NoArgs EXCEPT !.fn = "main_verify"]}

\* the calls made
Calls ==
    LoadCalls \cup CredentialCalls \cup WriteCalls \cup VerifyCalls \cup MainVerifyCalls \cup
    {[NoArgs EXCEPT !.fn = "get_latest_skelz_artifact", !.artifacts = a, !.ref = r] :
        a \in SeqsUpTo(Referrers, MaxList), r \in {RefA, RefB}}
    \cup {[NoArgs EXCEPT !.fn = "extract_digest_from_reference", !.ref = r] :
              r \in LibraryRefs}
    \cup {[NoArgs EXCEPT !.fn = "validate_reference", !.ref = r] : r \in LibraryRefs}
    \cup {[NoArgs EXCEPT !.fn = "verify_image_digest", !.memo = m, !.ref = r] :
              m \in Memos, r \in LibraryRefs}
    \cup {[NoArgs EXCEPT !.fn = "verify_transaction_signer", !.signer = k, !.expected = e] :
              k \in KeyStrings, e \in KeyStrings}

\* one call is about to be made
OneCall ==
    /\ args \in Calls
    /\ ret = <<>>

\* get_latest_skelz_artifact(artifacts, expected_image)
CallGetLatestSkelzArtifact ==
    /\ args.fn = "get_latest_skelz_artifact" /\ ret = <<>>
    /\ ret' = <<[ok |-> GetLatestSkelzArtifact(args.artifacts, args.ref).ok,
                 artifact |-> GetLatestSkelzArtifact(args.artifacts, args.ref).artifact,
                 skelz_artifacts |-> SkelzArtifactsFor(args.artifacts, args.ref)]>>
    /\ UNCHANGED <<args, ledgerVars, cliVars>>

\* extract_digest_from_reference(image_reference)
CallExtractDigestFromReference ==
    /\ args.fn = "extract_digest_from_reference" /\ ret = <<>>
    /\ ret' = <<ExtractDigestFromReference(args.ref)>>
    /\ UNCHANGED <<args, ledgerVars, cliVars>>

\* step 1 of verify_image_signature, and main's checks of the sign command
ValidateReference(image_reference) ==
    IF ~Contains(image_reference, DigestMarker) THEN "InvalidReference"
    ELSE IF ~StartsWith(image_reference, GhcrHost) THEN "UnsupportedRegistry"
    ELSE "Ok"

\* the reference is validated and, if accepted, its digest extracted
CallValidateReference ==
    /\ args.fn = "validate_reference" /\ ret = <<>>
    /\ ret' = <<[outcome |-> ValidateReference(args.ref),
                 digest |-> IF ValidateReference(args.ref) = "Ok"
                            THEN ExtractDigestFromReference(args.ref).digest
                            ELSE <<>>]>>
    /\ UNCHANGED <<args, ledgerVars, cliVars>>

\* load_config_with_overrides(rpc_url, keypair_path)
CallLoadConfigWithOverrides ==
    /\ args.fn = "load_config_with_overrides" /\ ret = <<>>
    /\ ret' = <<LoadConfigWithOverrides(args.cli.rpc_url, args.cli.keypair_path,
                                        args.env, args.file)>>
    /\ UNCHANGED <<args, ledgerVars, cliVars>>

\* resolve_ghcr_credentials(cfg) as main's registry login calls it
CallResolveGhcrCredentials ==
    /\ args.fn = "resolve_ghcr_credentials" /\ ret = <<>>
    /\ ret' = <<RegistryLoginCredentials(args.cli.username, args.cfg, args.env)>>
    /\ UNCHANGED <<args, ledgerVars, cliVars>>

\* write_config_file(path, cfg, force)
CallWriteConfigFile ==
    /\ args.fn = "write_config_file" /\ ret = <<>>
    /\ ret' = <<WriteConfigFile(args.file, args.cfg, args.force, args.io)>>
    /\ UNCHANGED <<args, ledgerVars, cliVars>>

\* verify_image_signature(image_reference, expected_signer, ..)
CallVerifyImageSignature ==
    /\ args.fn = "verify_image_signature" /\ ret = <<>>
    /\ ret' = <<VerifyImageSignature(args.ref, args.expected, args.artifacts,
                                     SampleLedger, TRUE, TRUE)>>
    /\ UNCHANGED <<args, ledgerVars, cliVars>>

\* the process exit code of main's Result
ExitCode(result) == IF result = "Ok" THEN 0 ELSE 1

\* main, Commands::Verify: prints "verify: not implemented yet", returns Ok(())
MainVerify == [exit |-> ExitCode("Ok"), pipeline |-> "not run"]

\* the verify command runs
CallMainVerify ==
    /\ args.fn = "main_verify" /\ ret = <<>>
    /\ ret' = <<MainVerify>>
    /\ UNCHANGED <<args, ledgerVars, cliVars>>

\* verify_image_digest(memo, expected_image_reference)
CallVerifyImageDigest ==
    /\ args.fn = "verify_image_digest" /\ ret = <<>>
    /\ ret' = <<VerifyImageDigest(args.memo, args.ref)>>
    /\ UNCHANGED <<args, ledgerVars, cliVars>>

\* verify_transaction_signer(signer_pubkey, expected_signer)
CallVerifyTransactionSigner ==
    /\ args.fn = "verify_transaction_signer" /\ ret = <<>>
    /\ ret' = <<VerifyTransactionSigner(args.signer, args.expected)>>
    /\ UNCHANGED <<args, ledgerVars, cliVars>>

----------------------------------------------------------------------------
(* Specifications *)

LedgerNext == WriteSignature \/ RustClientWrite \/ ReadAccount

CliNext == SignStart \/ SignAttach \/ SignCrash \/ ForeignAttach \/ Verify \/ VerifyExit

Init == LedgerInit /\ CliInit /\ NoCall

Next == LedgerNext \/ CliNext

\* the ledger program and its clients
LedgerSpec == Init /\ [][LedgerNext]_vars

\* the CLI, the registry and the ledger's memo transactions
CliSpec == Init /\ [][CliNext]_vars

\* the library's functions, each called on its own
LibraryNext ==
    \/ CallGetLatestSkelzArtifact
    \/ CallExtractDigestFromReference
    \/ CallValidateReference
    \/ CallVerifyImageDigest
    \/ CallVerifyTransactionSigner
    \/ CallLoadConfigWithOverrides
    \/ CallResolveGhcrCredentials
    \/ CallWriteConfigFile
    \/ CallVerifyImageSignature
    \/ CallMainVerify

LibraryInit == LedgerInit /\ CliInit /\ OneCall

LibrarySpec == LibraryInit /\ [][LibraryNext]_vars

Spec == Init /\ [][Next]_vars

----------------------------------------------------------------------------
(* Properties of the ledger program *)

\* the write is a write for `digest` at the address the program derives for it
WellFormed(w) == w.addr = ProgramDerive(w.digest)

\* the record for `digest` fits the account's allocation
Fits(digest) == SerializedLen(digest) <= Space

\* indices of the log entries that name address a
WritesAt(a) == {i \in DOMAIN writeLog : writeLog[i].addr = a}

\* indices of the well-formed writes for digest d
WritesFor(d) == {i \in DOMAIN writeLog : writeLog[i].digest = d /\ WellFormed(writeLog[i])}

\* C1 (as stated): once a write to address a has succeeded, every later write
\* to a, whatever record it carries, returns DuplicateAttestation.
C1_AnyLaterWriteIsDuplicate ==
    \A i, j \in DOMAIN writeLog :
        (i < j /\ writeLog[i].result = "Ok" /\ writeLog[j].addr = writeLog[i].addr)
            => writeLog[j].result = "DuplicateAttestation"

\* C1 (amended): once a write to address a has succeeded, no later write to a
\* succeeds: it returns DuplicateAttestation when its digest derives a, and is
\* rejected by the seeds constraint when its digest does not derive a.
C1_LaterWriteFails ==
    \A i, j \in DOMAIN writeLog :
        (i < j /\ writeLog[i].result = "Ok" /\ writeLog[j].addr = writeLog[i].addr)
            => /\ writeLog[j].result # "Ok"
               /\ WellFormed(writeLog[j]) => writeLog[j].result = "DuplicateAttestation"
               /\ ~WellFormed(writeLog[j]) => writeLog[j].result = "ConstraintSeeds"

\* a second write by another signer to an occupied address was refused as a duplicate
C1_Witness ==
    \E i, j \in DOMAIN writeLog :
        /\ i < j /\ writeLog[i].result = "Ok" /\ writeLog[j].addr = writeLog[i].addr
        /\ writeLog[j].signer # writeLog[i].signer
        /\ writeLog[j].result = "DuplicateAttestation"

\* C2: of the writes submitted for one digest (by any signers, executed in any
\* order) exactly one succeeds, every other one observes DuplicateAttestation,
\* and the stored record names the signer of the successful one.
C2_ExactlyOneWinner ==
    \A d \in Digests :
        (Fits(d) /\ WritesFor(d) # {}) =>
            \E k \in WritesFor(d) :
                /\ writeLog[k].result = "Ok"
                /\ \A j \in WritesFor(d) \ {k} : writeLog[j].result = "DuplicateAttestation"
                /\ accounts[ProgramDerive(d)] =
                       [init |-> TRUE, digest |-> d, signer |-> writeLog[k].signer]

\* both signers have written the same digest and the second in ledger order won
\* nothing
C2_Witness ==
    \E d \in Digests : \E i, j \in WritesFor(d) :
        /\ writeLog[i].signer = "S2" /\ writeLog[j].signer = "S1" /\ i < j
        /\ accounts[ProgramDerive(d)].signer = "S2"

\* C3: a record, once written, is never changed or removed by any later step
\* (writes by any signer, reads).
C3_RecordImmutable ==
    [][\A a \in Addresses : accounts[a].init => accounts'[a] = accounts[a]]_vars

\* a record was written, a later write by another signer named its address, and
\* the record was read back
C3_Witness ==
    /\ \E i, j \in DOMAIN writeLog :
           /\ i < j /\ writeLog[i].result = "Ok" /\ writeLog[j].addr = writeLog[i].addr
           /\ writeLog[j].signer # writeLog[i].signer
    /\ lastRead.found

\* C4: distinct digests derive distinct addresses, and a first write for a
\* digest succeeds whatever records exist for other digests.
C4_DisjointAddresses ==
    /\ \A d1, d2 \in Digests : d1 # d2 => ProgramDerive(d1) # ProgramDerive(d2)
    /\ \A i \in DOMAIN writeLog :
           (/\ WellFormed(writeLog[i]) /\ Fits(writeLog[i].digest)
            /\ \A h \in WritesFor(writeLog[i].digest) : h >= i)
               => writeLog[i].result = "Ok"

\* first writes for two different digests both succeeded
C4_Witness ==
    \E i, j \in DOMAIN writeLog :
        /\ i < j /\ writeLog[i].digest # writeLog[j].digest
        /\ writeLog[i].result = "Ok" /\ writeLog[j].result = "Ok"

\* C5: a first write for a fresh digest at the address the client computes for
\* it is accepted by the program.
C5_ClientAddressAccepted ==
    \A i \in DOMAIN writeLog :
        (/\ writeLog[i].addr = ClientDerive(writeLog[i].digest)
         /\ \A h \in DOMAIN writeLog : writeLog[h].digest = writeLog[i].digest => h >= i)
            => writeLog[i].result = "Ok"

----------------------------------------------------------------------------
(* Properties of the CLI's sign and verify pipelines *)

\* the stage at which a failure is raised
FailingStage(outcome) ==
    CASE outcome \in {"InvalidReference", "UnsupportedRegistry"} -> "ValidateReference"
      [] outcome \in {"ExternalToolError", "NoEvidenceFound"} -> "DiscoverEvidence"
      [] outcome = "MissingSignatureAnnotation" -> "ExtractTxId"
      [] outcome \in {"InvalidTxSignature", "TransportError", "TxNotFound",
                      "MemoParseError"} -> "ResolveRecord"
      [] outcome \in {"InvalidExpectedSigner", "InvalidSigner", "SignerMismatch"}
             -> "CompareSigner"
      [] outcome \in {"DigestMismatch", "InvalidArtifactKind"} -> "CompareDigest"
      [] OTHER -> "none"

\* the record verify resolved names another signer than the expected one
SignerDiffers ==
    /\ verify.record.ok /\ PubkeyFromStr(verify.expected).ok
    /\ PubkeyFromStr(verify.record.signer).key # PubkeyFromStr(verify.expected).key

\* the record verify resolved names another digest than the reference's
DigestDiffers ==
    /\ verify.record.ok
    /\ verify.record.memo.artifact.digest # ExtractDigestFromReference(verify.ref).digest

\* C6: verification runs the stages in the order ValidateReference,
\* DiscoverEvidence, ExtractTxId, ResolveRecord, CompareSigner, CompareDigest and
\* stops at the first failing one: the stages run are a prefix of that order,
\* a failure is the failure of the last stage run, all six have run when the
\* outcome is Verified, and when signer and digest both differ the failure
\* reported is the signer mismatch.
C6_StageOrder ==
    verify.pc = "done" =>
        /\ \E n \in 1..Len(Stages) : verify.trace = SubSeq(Stages, 1, n)
        /\ verify.outcome = "Verified" => verify.trace = Stages
        /\ verify.outcome # "Verified" =>
               verify.trace[Len(verify.trace)] = FailingStage(verify.outcome)
        /\ ~verify.record.ok => Len(verify.trace) <= 4
        /\ (SignerDiffers /\ DigestDiffers) => verify.outcome = "SignerMismatch"

\* a verification in which the resolved record differs from the expectation in
\* signer and in digest
C6_Witness ==
    /\ verify.pc = "done" /\ SignerDiffers /\ DigestDiffers
    /\ verify.outcome = "SignerMismatch"
    /\ verify.trace = SubSeq(Stages, 1, 5)

\* the host of a reference: what precedes its first '/'
Host(ref) ==
    IF Find(ref, <<"/">>) # 0 THEN SubSeq(ref, 1, Find(ref, <<"/">>) - 1) ELSE ref

\* the reference's host is the allowed registry host
InRegistryScope(ref) == Host(ref) = GhcrHost

\* C7: verification ends in one outcome, and it is Verified only if the
\* reference is canonical and in registry scope, the selected evidence is a
\* proof artifact for exactly that reference, the resolved signer is the
\* expected key and the resolved digest is the reference's digest.
C7_VerifiedOnlyIfEveryStageHolds ==
    verify.pc = "done" =>
        /\ verify.outcome = "Verified" \/ FailingStage(verify.outcome) # "none"
        /\ verify.outcome = "Verified" =>
            /\ Contains(verify.ref, DigestMarker)
            /\ InRegistryScope(verify.ref)
            /\ \E k \in DOMAIN verify.artifacts : verify.artifacts[k] = verify.selected
            /\ IsSkelzArtifactFor(verify.selected, verify.ref)
            /\ ~SignerDiffers
            /\ ~DigestDiffers

\* artifact is evidence for reference ref that names a memo transaction of
\* signer s for the digest of ref
IsEvidenceOf(artifact, ref, s) ==
    /\ artifact.artifactType = SkelzArtifactType
    /\ "skelz.original-image" \in DOMAIN artifact.annotations
    /\ artifact.annotations["skelz.original-image"] = ref
    /\ "skelz.signature" \in DOMAIN artifact.annotations
    /\ TxIndex(artifact.annotations["skelz.signature"]) \in DOMAIN txs
    /\ txs[TxIndex(artifact.annotations["skelz.signature"])] =
           [signer |-> s,
            data |-> SerializeMemo(SignatureMemo(ExtractDigestFromReference(ref).digest))]

\* the proof artifacts for verify's reference among those it discovered
MatchingEvidence ==
    {k \in DOMAIN verify.artifacts :
        /\ verify.artifacts[k].artifactType = SkelzArtifactType
        /\ "skelz.signature" \in DOMAIN verify.artifacts[k].annotations
        /\ "skelz.original-image" \in DOMAIN verify.artifacts[k].annotations
        /\ verify.artifacts[k].annotations["skelz.original-image"] = verify.ref}

\* C8: end to end. When sign of a ghcr.io reference R by signer S has
\* completed, the ledger holds S's memo transaction for the digest of R and the
\* registry holds, attached to R, evidence naming that transaction; and a
\* verification of R that reaches the registry and the ledger, where the
\* evidence published for R is evidence of S's signing, returns Verified when
\* the expected signer is S and SignerMismatch when it is another key.
C8_EndToEnd ==
    /\ (sign.pc = "done" /\ StartsWith(sign.ref, GhcrPrefix)) =>
           \E k \in DOMAIN registry :
               /\ registry[k].subject = sign.ref
               /\ registry[k].annotations["skelz.signature"] = sign.txid
               /\ IsEvidenceOf(registry[k], sign.ref, sign.signer)
    /\ \A s \in Signers :
           (/\ verify.pc = "done"
            /\ PubkeyFromStr(verify.expected).ok
            /\ verify.outcome \notin {"ExternalToolError", "TransportError"}
            /\ MatchingEvidence # {}
            /\ \A k \in MatchingEvidence : IsEvidenceOf(verify.artifacts[k], verify.ref, s))
           => verify.outcome =
                  IF verify.expected = PubkeyToString(s) THEN "Verified"
                  ELSE "SignerMismatch"

\* sign has completed and a verification of the same reference with another
\* expected signer has ended in SignerMismatch
C8_Witness ==
    /\ sign.pc = "done" /\ verify.pc = "done" /\ verify.ref = sign.ref
    /\ PubkeyFromStr(verify.expected).ok
    /\ verify.expected # PubkeyToString(sign.signer)
    /\ \A k \in MatchingEvidence : IsEvidenceOf(verify.artifacts[k], verify.ref, sign.signer)
    /\ verify.outcome = "SignerMismatch"

\* the memo transactions on the ledger that attest digest d
AttestationsOf(d) ==
    {i \in DOMAIN txs : /\ ParseMemo(txs[i].data).ok
                        /\ ParseMemo(txs[i].data).memo.artifact.digest = d}

\* C9: after any number of sign invocations for the same digest the ledger
\* holds at most one attestation for that digest.
C9_AtMostOneAttestation ==
    \A d \in {DigestA, DigestB} : Cardinality(AttestationsOf(d)) <= 1

\* the sign invocation wrote to the ledger and ended without publishing
SignedUnpublished ==
    \/ sign.pc = "crashed"
    \/ sign.pc = "failed" /\ sign.error = "PublishFailed"

\* C10 (state): when sign has failed at the attach or stopped after the ledger
\* write, its attestation is on the ledger; and a verification that reaches
\* the registry while no evidence for its reference is attached there ends at
\* DiscoverEvidence with NoEvidenceFound.
C10_State ==
    /\ SignedUnpublished =>
           /\ TxIndex(sign.txid) \in DOMAIN txs
           /\ txs[TxIndex(sign.txid)] =
                  [signer |-> sign.signer,
                   data |-> SerializeMemo(SignatureMemo(
                                ExtractDigestFromReference(sign.ref).digest))]
    /\ (/\ verify.pc = "done"
        /\ Len(verify.trace) >= 2
        /\ verify.outcome # "ExternalToolError"
        /\ ~\E k \in DOMAIN registry :
               /\ registry[k].subject = verify.ref
               /\ IsSkelzArtifactFor(registry[k], verify.ref))
       => /\ verify.outcome = "NoEvidenceFound"
          /\ verify.trace = SubSeq(Stages, 1, 2)

\* C10 (step): no step removes or changes a transaction of the ledger, and the
\* step in which sign fails at the attach or stops changes neither the ledger
\* nor the registry (nothing is rolled back, nothing is retried).
C10_Step ==
    /\ Len(txs') >= Len(txs) /\ SubSeq(txs', 1, Len(txs)) = txs
    /\ (sign.pc = "signed" /\ sign'.pc \in {"failed", "crashed"}) =>
           /\ txs' = txs /\ registry' = registry
           /\ sign'.error \in {"", "PublishFailed", "InvalidReferenceFormat"}

\* C10: evidence publication is not atomic with the ledger write and is never
\* rolled back: a failed attach or a stop after the ledger write leaves the
\* attestation on the ledger, sign fails without retrying, and verify fails at
\* evidence discovery for as long as no evidence is published.
C10_PublishNotAtomic == []C10_State /\ [][C10_Step]_vars

\* sign stopped after its ledger write, and a verification of the reference
\* it signed found no evidence
C10_Witness ==
    /\ sign.pc = "crashed" /\ verify.pc = "done" /\ verify.ref = sign.ref
    /\ verify.outcome = "NoEvidenceFound"
    /\ TxIndex(sign.txid) \in DOMAIN txs

----------------------------------------------------------------------------
(* Properties of evidence selection *)

\* get_latest_skelz_artifact has returned
Selected == args.fn = "get_latest_skelz_artifact" /\ ret # <<>>

\* the three conditions of the filter
IsEvidenceFor(a, ref) ==
    /\ a.artifactType = "application/vnd.skelz.proof.v1+json"
    /\ "skelz.original-image" \in DOMAIN a.annotations
    /\ a.annotations["skelz.original-image"] = ref
    /\ "skelz.signature" \in DOMAIN a.annotations

\* the artifacts of the call's list that meet the three conditions
Survivors == SelectSeq(args.artifacts, LAMBDA a : IsEvidenceFor(a, args.ref))

\* C11: selectLatest keeps exactly the artifacts whose artifactType is the
\* evidence media type and whose original-image annotation equals the given
\* reference and which carry a signature annotation; it fails (NoEvidenceFound)
\* exactly when no artifact passes, and the artifact it returns is one of the
\* list that passes all three conditions.
C11_FilterExact ==
    Selected =>
        /\ ret[1].skelz_artifacts = Survivors
        /\ ret[1].ok <=> Survivors # <<>>
        /\ ret[1].ok =>
               /\ IsEvidenceFor(ret[1].artifact, args.ref)
               /\ \E k \in DOMAIN args.artifacts : args.artifacts[k] = ret[1].artifact

\* a list of three artifacts of which only the last passes the filter, the
\* first being of another type and the second evidence for another image
C11_Witness ==
    /\ Selected /\ ret[1].ok /\ Len(args.artifacts) = 3
    /\ Len(ret[1].skelz_artifacts) = 1
    /\ ret[1].artifact = args.artifacts[3]
    /\ args.artifacts[1].artifactType # SkelzArtifactType
    /\ IsEvidenceFor(args.artifacts[2], RefB)

\* C12: selectLatest returns the most recent survivor: the returned artifact's
\* created timestamp is greater than or equal to that of every survivor,
\* whatever the order of the list; of two survivors created at T1 < T2 the one
\* created at T2 is returned.
C12_MostRecent ==
    (Selected /\ ret[1].ok) =>
        /\ \A k \in DOMAIN Survivors :
               CreatedTime(ret[1].artifact) >= CreatedTime(Survivors[k])
        /\ \A i, j \in DOMAIN Survivors :
               (Len(Survivors) = 2 /\ CreatedTime(Survivors[i]) < CreatedTime(Survivors[j]))
                   => ret[1].artifact = Survivors[j]

\* two survivors, the more recent one first in the list, and it is returned
C12_Witness ==
    /\ Selected /\ ret[1].ok /\ Len(Survivors) = 2
    /\ CreatedTime(Survivors[1]) = 2 /\ CreatedTime(Survivors[2]) = 1
    /\ ret[1].artifact = Survivors[1]

\* the artifact carries a created annotation that parses as RFC3339
HasParseableCreated(a) ==
    \E key \in {"org.opencontainers.artifact.created", "org.opencontainers.image.created"} :
        key \in DOMAIN a.annotations /\ ParseRfc3339(a.annotations[key]).ok

\* C13: an evidence artifact with a missing or unparseable created timestamp
\* is kept among the candidates, and it is selected only when no surviving
\* artifact carries a parseable timestamp.
C13_MissingCreatedIsOldest ==
    Selected =>
        /\ \A k \in DOMAIN Survivors :
               \E h \in DOMAIN ret[1].skelz_artifacts :
                   ret[1].skelz_artifacts[h] = Survivors[k]
        /\ (ret[1].ok /\ ~HasParseableCreated(ret[1].artifact)) =>
               \A k \in DOMAIN Survivors : ~HasParseableCreated(Survivors[k])

\* the survivors whose time is the greatest
Latest == {k \in DOMAIN Survivors :
              \A h \in DOMAIN Survivors : CreatedTime(Survivors[k]) >= CreatedTime(Survivors[h])}

\* C14: when several survivors share the greatest (or all-missing) created
\* timestamp, the artifact returned is the one of them that comes first in the
\* discovered list.
C14_FirstOfTied ==
    (Selected /\ ret[1].ok) =>
        \E k \in Latest :
            /\ ret[1].artifact = Survivors[k]
            /\ \A h \in Latest : k <= h

\* two different survivors share the greatest timestamp, a third is older, and
\* the one returned is the second of the list
C14_Witness ==
    /\ Selected /\ ret[1].ok /\ Len(Survivors) = 3 /\ Latest = {2, 3}
    /\ Survivors[2] # Survivors[3]
    /\ ret[1].artifact = Survivors[2]

\* C20: the artifact evidence discovery selects carries all four annotations
\* signature, original-image, created and tool.
C20_AllFourAnnotations ==
    (Selected /\ ret[1].ok) =>
        /\ "skelz.signature" \in DOMAIN ret[1].artifact.annotations
        /\ "skelz.original-image" \in DOMAIN ret[1].artifact.annotations
        /\ "skelz.tool" \in DOMAIN ret[1].artifact.annotations
        /\ \/ "org.opencontainers.artifact.created" \in DOMAIN ret[1].artifact.annotations
           \/ "org.opencontainers.image.created" \in DOMAIN ret[1].artifact.annotations

----------------------------------------------------------------------------
(* Properties of reference parsing and of the comparisons *)

\* the token stands for 64 lowercase hexadecimal characters
IsHex64(t) == t \in {"a64", "b64", "a63b"}

\* the string is "sha256:" followed by 64 lowercase hexadecimal characters
IsDigest(d) == Len(d) = 2 /\ d[1] = "sha256:" /\ IsHex64(d[2])

\* the reference has the marker "@sha256:" somewhere
HasMarker(ref) == \E i \in 1..(Len(ref) - 1) : ref[i] = "@" /\ ref[i + 1] = "sha256:"

\* the reference has the form registry/repository@sha256:<hex64>
Canonical(ref) ==
    /\ Len(ref) >= 6
    /\ ref[Len(ref) - 2] = "@" /\ IsDigest(SubSeq(ref, Len(ref) - 1, Len(ref)))
    /\ \A i \in 1..(Len(ref) - 3) : ref[i] # "@"
    /\ \E i \in 2..(Len(ref) - 4) : ref[i] = "/"
    /\ ref[1] # "/"

C16_AcceptedDigestIsHex64 ==
    (args.fn = "validate_reference" /\ ret # <<>> /\ ret[1].outcome = "Ok") =>
        /\ IsDigest(ret[1].digest)
        /\ IsDigest(SubSeq(args.ref, Len(args.ref) - 1, Len(args.ref)))

\* C17: sign and verify fail with UnsupportedRegistry, before any ledger or
\* registry call, for a reference (with a digest) whose host is not the
\* allowed registry host, also when the host begins with the allowed host's
\* name.
C17_OutOfScopeRejected ==
    /\ (sign.pc # "idle" /\ HasMarker(sign.ref) /\ ~InRegistryScope(sign.ref)) =>
           /\ sign.pc = "failed" /\ sign.error = "UnsupportedRegistry"
           /\ sign.txid = ""
    /\ (verify.pc = "done" /\ HasMarker(verify.ref) /\ ~InRegistryScope(verify.ref)) =>
           /\ verify.outcome = "UnsupportedRegistry"
           /\ verify.trace = <<"ValidateReference">>

\* verify_image_digest has returned, for a reference that has a digest
DigestCompared ==
    /\ args.fn = "verify_image_digest" /\ ret # <<>>
    /\ HasMarker(args.ref)

\* the digest of the call's reference: what follows the '@' of the marker
ReferenceDigest ==
    LET at == CHOOSE i \in 1..(Len(args.ref) - 1) :
                  /\ args.ref[i] = "@" /\ args.ref[i + 1] = "sha256:"
                  /\ \A j \in 1..(i - 1) : ~(args.ref[j] = "@" /\ args.ref[j + 1] = "sha256:")
    IN  [n \in 1..(Len(args.ref) - at) |-> args.ref[at + n]]

\* C18 (as stated): CompareDigest succeeds exactly when the record's digest
\* equals the digest of the reference, and any difference fails with
\* DigestMismatch.
C18_SucceedsIffDigestEqual ==
    DigestCompared =>
        /\ ret[1] = "Ok" <=> args.memo.artifact.digest = ReferenceDigest
        /\ args.memo.artifact.digest # ReferenceDigest => ret[1] = "DigestMismatch"

\* C18 (amended): CompareDigest succeeds exactly when the record's digest
\* equals the digest of the reference and the record's artifact kind is
\* "oci-image"; any difference of the digests fails with DigestMismatch, and
\* equal digests with another kind fail with the invalid-artifact-kind error.
C18_SucceedsIffDigestEqualAndKind ==
    DigestCompared =>
        /\ ret[1] = "Ok" <=> (/\ args.memo.artifact.digest = ReferenceDigest
                              /\ args.memo.artifact.kind = "oci-image")
        /\ args.memo.artifact.digest # ReferenceDigest => ret[1] = "DigestMismatch"
        /\ (/\ args.memo.artifact.digest = ReferenceDigest
            /\ args.memo.artifact.kind # "oci-image") => ret[1] = "InvalidArtifactKind"

\* the record's digest differs from the reference's in its last character
\* only, and the comparison failed with DigestMismatch
C18_Witness ==
    /\ DigestCompared /\ args.memo.artifact.kind = "oci-image"
    /\ ReferenceDigest = DigestA /\ args.memo.artifact.digest = <<"sha256:", "a63b">>
    /\ ret[1] = "DigestMismatch"

\* the string is the base58 text of key k
Denotes(str, k) == str = <<"base58", k>>

\* C19: CompareSigner succeeds exactly when the record's signer and the
\* expected public key denote the same key, and fails with SignerMismatch
\* when they denote different keys.
C19_SucceedsIffSameKey ==
    (args.fn = "verify_transaction_signer" /\ ret # <<>>) =>
        /\ ret[1] = "Ok" <=>
               \E k \in Signers : Denotes(args.signer, k) /\ Denotes(args.expected, k)
        /\ \A k1, k2 \in Signers :
               (Denotes(args.signer, k1) /\ Denotes(args.expected, k2) /\ k1 # k2)
                   => ret[1] = "SignerMismatch"

\* the record's signer and the expected key are different keys and the
\* comparison failed with SignerMismatch
C19_Witness ==
    /\ args.fn = "verify_transaction_signer" /\ ret # <<>>
    /\ Denotes(args.signer, "S1") /\ Denotes(args.expected, "S2")
    /\ ret[1] = "SignerMismatch"

----------------------------------------------------------------------------
(* Properties of the sign path *)

\* C21 (step): the artifact sign attaches carries signature = the transaction
\* id the ledger write returned, original-image = the signed reference, a
\* created timestamp and the tool id.
C21_Step ==
    (sign.pc = "signed" /\ sign'.pc = "done") =>
        /\ Len(registry') = Len(registry) + 1
        /\ LET a == registry'[Len(registry')].annotations IN
           /\ "skelz.signature" \in DOMAIN a /\ a["skelz.signature"] = sign.txid
           /\ "skelz.original-image" \in DOMAIN a /\ a["skelz.original-image"] = sign.ref
           /\ "skelz.tool" \in DOMAIN a /\ a["skelz.tool"] = "skelz-cli@v1.0.0"
           /\ HasParseableCreated(registry'[Len(registry')])

C23_Step ==
    (registry' # registry /\ sign' # sign) =>
        /\ sign.pc = "signed"
        /\ Len(registry') = Len(registry) + 1
        /\ LET a == registry'[Len(registry')].annotations
               i == TxIndex(a["skelz.signature"])
           IN  /\ i \in DOMAIN txs
               /\ txs[i].signer = sign.signer
               /\ ParseMemo(txs[i].data).ok
               /\ HasMarker(a["skelz.original-image"])
               /\ <<"@">> \o ParseMemo(txs[i].data).memo.artifact.digest =
                      SubSeq(a["skelz.original-image"],
                             Len(a["skelz.original-image"]) - 2,
                             Len(a["skelz.original-image"]))

\* C23: on the sign path the ledger write precedes evidence publication:
\* every artifact sign publishes names a confirmed ledger transaction for the
\* same image's digest, and sign publishes nothing when its write failed or
\* was not attempted.
C23_WriteBeforePublish ==
    /\ [][C23_Step]_vars
    /\ [](sign.txid = "" => sign.pc \in {"idle", "failed"})

\* S2 has signed ghcr.io/acme@sha256:bb..b and its evidence is published
C23_Witness ==
    /\ sign.pc = "done" /\ sign.ref = RefB /\ sign.signer = "S2"
    /\ \E k \in DOMAIN registry :
           /\ registry[k].annotations["skelz.signature"] = sign.txid
           /\ txs[TxIndex(sign.txid)].signer = "S2"

\* C24 (state): a sign invocation of a reference without the marker has
\* failed as an invalid reference, holds no transaction id and wrote no file.
C24_State ==
    (sign.pc # "idle" /\ ~HasMarker(sign.ref)) =>
        /\ sign.pc = "failed" /\ sign.error = "InvalidReference"
        /\ sign.txid = "" /\ sign.file = "none"

\* C24 (step): the step of such an invocation changes neither the ledger nor
\* the registry.
C24_Step ==
    (sign' # sign /\ ~HasMarker(sign'.ref)) =>
        /\ txs' = txs /\ registry' = registry
        /\ accounts' = accounts /\ writeLog' = writeLog

\* C24: a sign invocation whose reference has no "@sha256:" marker fails
\* before any side effect: no ledger transaction is submitted, no evidence
\* file is written and nothing is attached to the registry.
C24_NoMarkerNoEffect == []C24_State /\ [][C24_Step]_vars

\* sign of ghcr.io/acme:latest has failed, with a ledger and a registry that
\* hold earlier entries
C24_Witness ==
    /\ sign.pc = "failed" /\ sign.ref = RefTag /\ sign.error = "InvalidReference"
    /\ Len(txs) = 1 /\ Len(registry) = 1

----------------------------------------------------------------------------
(* Properties of the configuration *)

\* the variable is set and its value is not the empty string
NonEmpty(opt) == opt # <<>> /\ opt[1] # <<>>

\* the variable is set and its value has a character that is not whitespace
NotBlank(opt) == opt # <<>> /\ \E i \in DOMAIN opt[1] : opt[1][i] # " "

\* the value the file gives: the configuration read, or the defaults
FileValues == IF args.file = <<>> THEN DefaultConfig(args.env) ELSE args.file[1]

\* load_config_with_overrides or the credential resolution has returned
Loaded == args.fn = "load_config_with_overrides" /\ ret # <<>>
Resolved == args.fn = "resolve_ghcr_credentials" /\ ret # <<>> /\ ret[1].ok

Written == args.fn = "write_config_file" /\ ret # <<>>

\* C26: writing the configuration file without force to a path that exists
\* fails with ConfigExists and leaves the file unchanged; with force, or when
\* the path is absent, the file afterwards holds the given configuration
\* (the file system permitting), and the write succeeds only then.
C26_WriteConfig ==
    Written =>
        /\ (args.file # <<>> /\ ~args.force) =>
               ret[1].result = "ConfigExists" /\ ret[1].file = args.file
        /\ ((args.file = <<>> \/ args.force) /\ args.io = "ok") =>
               /\ ret[1].result = "Ok"
               /\ ret[1].file # <<>> /\ FromToml(ret[1].file[1]) = <<args.cfg>>
        /\ ret[1].result = "Ok" =>
               ret[1].file # <<>> /\ FromToml(ret[1].file[1]) = <<args.cfg>>
        /\ ret[1].result = "ConfigExists" => (args.file # <<>> /\ ~args.force)

\* an existing file holding another configuration was overwritten with force
C26_Witness ==
    /\ Written /\ args.force /\ args.file # <<>>
    /\ FromToml(args.file[1]) # <<args.cfg>>
    /\ ret[1].result = "Ok" /\ FromToml(ret[1].file[1]) = <<args.cfg>>

----------------------------------------------------------------------------
(* Properties of the commands and of the verification pipeline *)

\* C22: the verify command exits with code 0 only when the verification
\* pipeline reached Verified.
C22_VerifyExitsZeroOnlyIfVerified ==
    (args.fn = "main_verify" /\ ret # <<>> /\ ret[1].exit = 0) =>
        ret[1].pipeline = "Verified"

\* verify_image_signature has returned
PipelineRan == args.fn = "verify_image_signature" /\ ret # <<>>

\* C28: the ExtractTxId stage never fails: whenever evidence selection
\* succeeds the selected artifact carries a signature annotation and the
\* pipeline goes on to ResolveRecord; MissingSignatureAnnotation is never the
\* outcome.
C28_ExtractTxIdNeverFails ==
    PipelineRan =>
        /\ ret[1].outcome # "MissingSignatureAnnotation"
        /\ ret[1].trace # SubSeq(Stages, 1, 3)
        /\ Len(ret[1].trace) >= 3 =>
               "skelz.signature" \in DOMAIN ret[1].selected.annotations

\* the registry holds a proof artifact for the reference without a signature
\* annotation, more recent than the one selected, and the pipeline has
\* resolved the selected one's transaction
C28_Witness ==
    /\ PipelineRan /\ Len(ret[1].trace) >= 5
    /\ \E k \in DOMAIN args.artifacts :
           /\ args.artifacts[k].artifactType = SkelzArtifactType
           /\ "skelz.signature" \notin DOMAIN args.artifacts[k].annotations
           /\ "skelz.original-image" \in DOMAIN args.artifacts[k].annotations
           /\ args.artifacts[k].annotations["skelz.original-image"] = args.ref
           /\ CreatedTime(args.artifacts[k]) > CreatedTime(ret[1].selected)

\* the matching evidence verify discovered that is the most recent, the first
\* of the list among equally recent ones
HeadEvidence ==
    {k \in MatchingEvidence :
        \A h \in MatchingEvidence :
            \/ CreatedTime(verify.artifacts[k]) > CreatedTime(verify.artifacts[h])
            \/ CreatedTime(verify.artifacts[k]) = CreatedTime(verify.artifacts[h]) /\ k <= h}

\* C27: verification consults only the head of the evidence ordering: the
\* artifact it selects is the most recent matching evidence, the outcome is
\* Verified only if that artifact names a transaction of the expected signer
\* for the reference's digest, and it is SignerMismatch when that artifact's
\* transaction is another signer's, whatever older evidence is attached.
C27_OnlyHead ==
    (verify.pc = "done" /\ Len(verify.trace) >= 3) =>
        \E k \in HeadEvidence :
            /\ verify.selected = verify.artifacts[k]
            /\ verify.outcome = "Verified" =>
                   \E s \in Signers :
                       /\ verify.expected = PubkeyToString(s)
                       /\ IsEvidenceOf(verify.artifacts[k], verify.ref, s)
            /\ \A s \in Signers :
                   (/\ IsEvidenceOf(verify.artifacts[k], verify.ref, s)
                    /\ PubkeyFromStr(verify.expected).ok
                    /\ verify.expected # PubkeyToString(s)
                    /\ verify.outcome # "TransportError")
                       => verify.outcome = "SignerMismatch"

\* S1 signed the image, S2 signed it again, and a verification expecting S1
\* has failed with a signer mismatch although S1's evidence is attached
C27_Witness ==
    /\ verify.pc = "done" /\ verify.expected = PubkeyToString("S1")
    /\ verify.outcome = "SignerMismatch"
    /\ sign.pc = "done" /\ sign.signer = "S2" /\ sign.ref = verify.ref
    /\ \E h \in MatchingEvidence :
           /\ IsEvidenceOf(verify.artifacts[h], verify.ref, "S1")
           /\ verify.artifacts[h] # verify.selected

\* C30 (step): a step of a verify invocation changes nothing but the
\* invocation's own report.
C30_Step ==
    verify' # verify =>
        /\ txs' = txs /\ registry' = registry
        /\ accounts' = accounts /\ writeLog' = writeLog
        /\ sign' = sign

\* C30: verification is read-only: no verify invocation, whatever its
\* outcome, creates or changes a ledger record, submits a transaction, or
\* attaches, removes or alters an artifact in the registry.
C30_VerifyReadOnly == [][C30_Step]_vars

\* a verification has ended in Verified on a ledger with two transactions and
\* a registry with two artifacts
C30_Witness ==
    /\ verify.pc = "done" /\ verify.outcome = "Verified"
    /\ Len(txs) = 2 /\ Len(registry) = 2

----------------------------------------------------------------------------
(* Properties of the ledger's records *)

\* C29: the record stored at address a has a digest D with a = derive(D), and
\* its signer is the signer of the one successful write transaction at a.
C29_RecordConsistent ==
    \A a \in Addresses :
        accounts[a].init =>
            /\ a = ProgramDerive(accounts[a].digest)
            /\ \E i \in DOMAIN writeLog :
                   /\ writeLog[i].addr = a /\ writeLog[i].result = "Ok"
                   /\ writeLog[i].digest = accounts[a].digest
                   /\ writeLog[i].signer = accounts[a].signer
                   /\ \A j \in DOMAIN writeLog :
                          (writeLog[j].addr = a /\ writeLog[j].result = "Ok") => j = i

\* two records exist, written by different signers, and a third write named
\* an occupied address
C29_Witness ==
    /\ \E a, b \in Addresses :
           /\ accounts[a].init /\ accounts[b].init
           /\ accounts[a].signer # accounts[b].signer
    /\ Len(writeLog) = 3

\* the write is the first one to reach the record's creation at its address:
\* it names the address derived from its digest and no earlier write created
\* a record there
FirstWellFormed(i) ==
    /\ writeLog[i].addr = ProgramDerive(writeLog[i].digest)
    /\ \A j \in 1..(i - 1) :
           ~(writeLog[j].addr = writeLog[i].addr /\ writeLog[j].result = "Ok")

\* C31: the allocation of 8 + 100 + 32 bytes holds every canonical digest: a
\* write for a digest sha256:<hex64> (71 bytes, with the 8-byte header, the
\* 4-byte length prefix and the 32-byte signer) at a free address succeeds,
\* and a write whose digest does not fit in the allocation fails and leaves no
\* record at the address.
C31_AllocationHoldsDigest ==
    \A i \in DOMAIN writeLog :
        FirstWellFormed(i) =>
            /\ IsDigest(writeLog[i].digest) =>
                   /\ StrLen(writeLog[i].digest) = 71
                   /\ 8 + 4 + 71 + 32 <= 8 + 100 + 32
                   /\ writeLog[i].result = "Ok"
            /\ 8 + 4 + StrLen(writeLog[i].digest) + 32 > 8 + 100 + 32 =>
                   /\ writeLog[i].result # "Ok"
                   /\ ~accounts[writeLog[i].addr].init

\* a write for a canonical digest has created its record, and a write for a
\* digest too long for the allocation has failed at serialization and left
\* its address empty
C31_Witness ==
    \E i, j \in DOMAIN writeLog :
        /\ IsDigest(writeLog[i].digest) /\ writeLog[i].result = "Ok"
        /\ accounts[writeLog[i].addr].init
        /\ writeLog[j].digest = DigestLong /\ FirstWellFormed(j)
        /\ writeLog[j].result = "AccountDidNotSerialize"
        /\ ~accounts[writeLog[j].addr].init

====
